---- MODULE Spec2Model ----
(***************************************************************************)
(* The Solana due-diligence pipeline of kovuchatbot:                      *)
(*   api_client.py    BirdeyeClient     (remote data provider)            *)
(*   token_mapper.py  TokenMapper       (address resolver)                *)
(*   token_service.py TokenDataService  (profile aggregator)              *)
(* Python values are modelled as tagged records [t, v]; an exception that *)
(* leaves a method is the value Raise(kind).                              *)
(***************************************************************************)
EXTENDS Integers, Sequences, FiniteSets, TLC

VARIABLES
    map_file,        \* condition/content of memecoin_map.json on disk
    constructed,     \* TokenMapper.__init__ returned without raising
    local_map,       \* TokenMapper.local_map
    birdeye_client,  \* the client object handed to both constructors
    op,              \* the public operation just executed: "none" (the
                     \* caller is between calls) | "resolve" | "build"
    arg,             \* its argument (token query / contract address)
    responses,       \* wire outcomes of the remote calls it issued, in order
    calls,           \* the remote calls it issued, in order
    result,          \* what it returned, or Raise(..) when a fault escaped
    earlier          \* history: one earlier get_core_token_info invocation

vars == <<map_file, constructed, local_map, birdeye_client, op, arg,
          responses, calls, result, earlier>>

(***************************************************************************)
(* Bounds of the model.                                                    *)
(***************************************************************************)
MaxNameLen == 1
MaxEntries == 2
MaxHolders == 6
MaxLater == 2

(***************************************************************************)
(* Python values.                                                          *)
(***************************************************************************)
PyNone == [t |-> "None", v |-> <<>>]
PyBool(b) == [t |-> "bool", v |-> b]
PyNum(n) == [t |-> "num", v |-> n]
PyStr(s) == [t |-> "str", v |-> s]
PyList(s) == [t |-> "list", v |-> s]
PyDict(f) == [t |-> "dict", v |-> f]
Raise(kind) == [t |-> "raise", v |-> kind]

IsRaise(x) == x.t = "raise"

\* bool(x): None, False, 0, "", [] and {} are falsy
Truthy(x) ==
    CASE x.t = "None" -> FALSE
      [] x.t = "bool" -> x.v
      [] x.t = "num" -> x.v # 0
      [] x.t = "str" -> x.v # ""
      [] x.t = "list" -> x.v # <<>>
      [] x.t = "dict" -> DOMAIN x.v # {}
      [] OTHER -> TRUE

\* x.get(key): only a dict has .get; a missing key gives None
py_get(x, key) ==
    IF x.t # "dict" THEN Raise("AttributeError")
    ELSE IF key \in DOMAIN x.v THEN x.v[key] ELSE PyNone

\* x.get(key, default)
py_get_default(x, key, default) ==
    IF x.t # "dict" THEN Raise("AttributeError")
    ELSE IF key \in DOMAIN x.v THEN x.v[key] ELSE default

\* a or b
py_or(a, b) == IF Truthy(a) THEN a ELSE b

(***************************************************************************)
(* str.lower() on token names, which are sequences of characters.          *)
(***************************************************************************)
Chars == {"a", "A", "b"}

lower_char(c) ==
    CASE c = "A" -> "a"
      [] c = "B" -> "b"
      [] OTHER -> c

lower(s) == [i \in DOMAIN s |-> lower_char(s[i])]

Names == UNION {[1..n -> Chars] : n \in 1..MaxNameLen}

(***************************************************************************)
(* api_client.py                                                           *)
(***************************************************************************)
DEFAULT_CHAIN == "solana"

\* What the HTTP layer does with one request.
WireFaults ==
    {[kind |-> k, body |-> PyNone] :
        k \in {"connection_error", "timeout", "http_error", "invalid_json"}}

WireOk(body) == [kind |-> "ok", body |-> body]

\* BirdeyeClient._request: HTTPError, Timeout and every other
\* RequestException (response.json() raises one, requests' JSONDecodeError,
\* for a body that is not JSON) are printed and swallowed; otherwise the
\* parsed body is returned as it is, whatever its shape.
_request(wire) == IF wire.kind = "ok" THEN wire.body ELSE PyNone

Call(endpoint, params) == [endpoint |-> endpoint, params |-> params]

\* items[0].get("address") for a truthy items
first_item_address(items) ==
    CASE items.t = "list" -> py_get(items.v[1], "address")
      [] items.t = "str" -> Raise("AttributeError")
      [] items.t = "dict" -> Raise("KeyError")
      [] OTHER -> Raise("TypeError")

\* BirdeyeClient.search_token
search_token(query, chain, wire) ==
    LET response_data == _request(wire)
        call == Call("/defi/v3/search", [q |-> query, chain |-> chain])
        success == py_get(response_data, "success")
        data == py_get(response_data, "data")
        items == py_get(data, "items")
        ret ==
            IF ~Truthy(response_data) THEN PyNone
            ELSE IF IsRaise(success) THEN success
            ELSE IF ~Truthy(success) THEN PyNone
            ELSE IF ~Truthy(data) THEN PyNone
            ELSE IF IsRaise(items) THEN items
            ELSE IF ~Truthy(items) THEN PyNone
            ELSE first_item_address(items)
    IN [ret |-> ret, calls |-> <<call>>]

(***************************************************************************)
(* token_mapper.py                                                         *)
(***************************************************************************)
\* The parsed memecoin_map.json when it is a JSON object: its entries in
\* file order (a Python dict iterates in insertion order).
LocalTable(entries) == [t |-> "table", v |-> entries]

Entry(name, address) == [name |-> name, address |-> address]

\* The exception open()/json.load() raise for each condition of the file.
load_exception(file) ==
    CASE file.kind = "missing" -> "FileNotFoundError"
      [] file.kind = "invalid_json" -> "JSONDecodeError"
      [] file.kind = "undecodable" -> "UnicodeDecodeError"
      [] OTHER -> "none"

\* TokenMapper.load_local_map
load_local_map(file) ==
    LET exc == load_exception(file)
    IN IF exc = "none" THEN file.value
       ELSE IF exc \in {"FileNotFoundError", "JSONDecodeError"}
            THEN LocalTable(<<>>)
       ELSE Raise(exc)

\* faulty variant: the key is compared as written, not lowercased
RECURSIVE scan_local_map_case_sensitive(_, _, _)
scan_local_map_case_sensitive(entries, i, query_lower) ==
    IF i > Len(entries) THEN [found |-> FALSE, address |-> PyNone]
    ELSE IF entries[i].name = query_lower
         THEN [found |-> TRUE, address |-> entries[i].address]
    ELSE scan_local_map_case_sensitive(entries, i + 1, query_lower)

\* the for loop of get_contract_address from entry i on: the address of the
\* first entry whose lowercased name is query_lower, or "no match"
RECURSIVE scan_local_map(_, _, _)
scan_local_map(entries, i, query_lower) ==
    IF i > Len(entries) THEN [found |-> FALSE, address |-> PyNone]
    ELSE IF lower(entries[i].name) = query_lower
         THEN [found |-> TRUE, address |-> entries[i].address]
    ELSE scan_local_map(entries, i + 1, query_lower)

\* faulty variant: an address found by remote search is cached in
\* self.local_map (the TODO of get_contract_address carried out)
get_contract_address_caching(self_local_map, client, token_query, wire) ==
    LET query_lower == lower(token_query)
        hit == scan_local_map(self_local_map.v, 1, query_lower)
        searched == search_token(query_lower, DEFAULT_CHAIN, wire)
    IN IF self_local_map.t # "table"
       THEN [ret |-> Raise("AttributeError"), calls |-> <<>>,
             local_map |-> self_local_map]
       ELSE IF hit.found
       THEN [ret |-> hit.address, calls |-> <<>>,
             local_map |-> self_local_map]
       ELSE IF ~client
       THEN [ret |-> PyNone, calls |-> <<>>, local_map |-> self_local_map]
       ELSE IF ~IsRaise(searched.ret) /\ Truthy(searched.ret)
       THEN [ret |-> searched.ret, calls |-> searched.calls,
             local_map |->
                 LocalTable(Append(self_local_map.v,
                                   Entry(query_lower, searched.ret)))]
       ELSE [ret |-> IF IsRaise(searched.ret) THEN searched.ret ELSE PyNone,
             calls |-> searched.calls,
             local_map |-> self_local_map]

\* TokenMapper.get_contract_address: what it returns, the remote calls it
\* issues and self.local_map afterwards
get_contract_address(self_local_map, client, token_query, wire) ==
    LET query_lower == lower(token_query)
        hit == scan_local_map(self_local_map.v, 1, query_lower)
        searched == search_token(query_lower, DEFAULT_CHAIN, wire)
    IN IF self_local_map.t # "table"
       THEN [ret |-> Raise("AttributeError"), calls |-> <<>>,
             local_map |-> self_local_map]
       ELSE IF hit.found
       THEN [ret |-> hit.address, calls |-> <<>>,
             local_map |-> self_local_map]
       ELSE IF ~client
       THEN [ret |-> PyNone, calls |-> <<>>, local_map |-> self_local_map]
       ELSE [ret |-> IF IsRaise(searched.ret) \/ Truthy(searched.ret)
                     THEN searched.ret ELSE PyNone,
             calls |-> searched.calls,
             local_map |-> self_local_map]

(***************************************************************************)
(* token_service.py                                                        *)
(***************************************************************************)
TopHolders == 5

\* get_nested(data_dict, k1, k2, default=None)
get_nested(data_dict, k1, k2) ==
    IF data_dict.t = "dict" /\ k1 \in DOMAIN data_dict.v
    THEN LET inner == data_dict.v[k1]
         IN IF inner.t = "dict" /\ k2 \in DOMAIN inner.v
            THEN inner.v[k2] ELSE PyNone
    ELSE PyNone

\* "Ensure both API calls were successful and returned data": the truth
\* value of  d and d.get("success") and d.get("data"), or the exception
\* its evaluation raises
check_data(d) ==
    IF ~Truthy(d) THEN PyBool(FALSE)
    ELSE IF d.t # "dict" THEN Raise("AttributeError")
    ELSE PyBool(Truthy(py_get(d, "success")) /\ Truthy(py_get(d, "data")))

\* faulty variant: the profile is stamped with a per-process sequence
\* number (the number of operations since the recorded invocation)
core_token_info_stamped(contract_address, price_info, overview_info) ==
    IF price_info.t # "dict" \/ overview_info.t # "dict"
    THEN Raise("AttributeError")
    ELSE PyDict(
        [name |-> py_get(overview_info, "name"),
         symbol |-> py_get(overview_info, "symbol"),
         price |-> py_get(price_info, "value"),
         logoURI |-> py_get(overview_info, "logoURI"),
         website |-> py_or(get_nested(overview_info, "links", "website"),
                           py_get(overview_info, "website")),
         twitter |-> get_nested(overview_info, "links", "twitter"),
         telegram |-> get_nested(overview_info, "links", "telegram"),
         marketCap |-> py_get(overview_info, "mc"),
         totalSupply |-> py_get(overview_info, "totalSupply"),
         circulatingSupply |-> py_get(overview_info, "circulatingSupply"),
         explorerURL |-> PyStr(<<"https://solscan.io/token/",
                                 contract_address>>),
         extensions |-> py_get(overview_info, "extensions"),
         fetchedAt |-> PyNum(earlier.after)])

\* the token_info literal
core_token_info(contract_address, price_info, overview_info) ==
    IF price_info.t # "dict" \/ overview_info.t # "dict"
    THEN Raise("AttributeError")
    ELSE PyDict(
        [name |-> py_get(overview_info, "name"),
         symbol |-> py_get(overview_info, "symbol"),
         price |-> py_get(price_info, "value"),
         logoURI |-> py_get(overview_info, "logoURI"),
         website |-> py_or(get_nested(overview_info, "links", "website"),
                           py_get(overview_info, "website")),
         twitter |-> get_nested(overview_info, "links", "twitter"),
         telegram |-> get_nested(overview_info, "links", "telegram"),
         marketCap |-> py_get(overview_info, "mc"),
         totalSupply |-> py_get(overview_info, "totalSupply"),
         circulatingSupply |-> py_get(overview_info, "circulatingSupply"),
         explorerURL |-> PyStr(<<"https://solscan.io/token/",
                                 contract_address>>),
         extensions |-> py_get(overview_info, "extensions")])

SecurityKeys ==
    {"creatorAddress", "ownerAddress", "isMutable", "isVerified",
     "isHoneypot", "lpLock", "top10HolderPercent"}

\* "Process security data": token_info afterwards
process_security(token_info, security_data_raw) ==
    LET ok == check_data(security_data_raw)
        sec_data == py_get(security_data_raw, "data")
    IN IF IsRaise(ok) THEN ok
       ELSE IF ~ok.v THEN token_info
       ELSE IF sec_data.t # "dict" THEN Raise("AttributeError")
       ELSE PyDict([k \in SecurityKeys |-> py_get(sec_data, k)]
                   @@ token_info.v)

\* holders[:5]
top_slice(holders) ==
    CASE holders.t = "list" ->
            PyList(SubSeq(holders.v, 1,
                          IF Len(holders.v) < TopHolders
                          THEN Len(holders.v) ELSE TopHolders))
      [] holders.t = "str" -> holders
      [] OTHER -> Raise("TypeError")

\* {"address": h.get("owner"), "percentage": h.get("percentage")}
holder_summary(h) ==
    IF h.t # "dict" THEN Raise("AttributeError")
    ELSE PyDict([address |-> py_get(h, "owner"),
                 percentage |-> py_get(h, "percentage")])

\* "Process holder data": token_info afterwards
process_holders(token_info, holder_data_raw) ==
    LET ok == check_data(holder_data_raw)
        data == py_get(holder_data_raw, "data")
        holders == py_get_default(data, "holders", PyList(<<>>))
        top == top_slice(holders)
    IN IF IsRaise(ok) THEN ok
       ELSE IF ~ok.v THEN token_info
       ELSE IF IsRaise(holders) THEN holders
       ELSE IF IsRaise(top) THEN top
       ELSE IF top.t = "str"
            THEN IF top.v = "" THEN PyDict([topHolders |-> PyList(<<>>)]
                                           @@ token_info.v)
                 ELSE Raise("AttributeError")
       ELSE IF \E i \in DOMAIN top.v : top.v[i].t # "dict"
            THEN Raise("AttributeError")
       ELSE PyDict([topHolders |->
                       PyList([i \in DOMAIN top.v |->
                                  holder_summary(top.v[i])])]
                   @@ token_info.v)

AddressParams(contract_address) ==
    [address |-> contract_address, chain |-> DEFAULT_CHAIN]

\* BirdeyeClient.get_token_price / get_token_overview / get_token_security /
\* get_token_holders: the request each one issues
get_token_price(contract_address) ==
    Call("/defi/price", AddressParams(contract_address))
get_token_overview(contract_address) ==
    Call("/defi/token_overview", AddressParams(contract_address))
get_token_security(contract_address) ==
    Call("/defi/token_security", AddressParams(contract_address))
get_token_holders(contract_address) ==
    Call("/defi/v3/token/holder",
         [token_address |-> contract_address, chain |-> DEFAULT_CHAIN])

\* TokenDataService.get_core_token_info: what it returns, the remote calls
\* it issues and the wire outcomes it consumed. wires is
\* <<price, overview, security, holders>>.
get_core_token_info(client, contract_address, wires) ==
    LET price_data == _request(wires[1])
        overview_data == _request(wires[2])
        required == <<get_token_price(contract_address),
                      get_token_overview(contract_address)>>
        optional == <<get_token_security(contract_address),
                      get_token_holders(contract_address)>>
        price_ok == check_data(price_data)
        overview_ok == check_data(overview_data)
        token_info == core_token_info(contract_address,
                                      py_get(price_data, "data"),
                                      py_get(overview_data, "data"))
        with_security == process_security(token_info, _request(wires[3]))
        with_holders == process_holders(with_security, _request(wires[4]))
        after2(ret) == [ret |-> ret, calls |-> required,
                        used |-> SubSeq(wires, 1, 2)]
        after4(ret) == [ret |-> ret, calls |-> required \o optional,
                        used |-> wires]
    IN IF ~client THEN [ret |-> PyNone, calls |-> <<>>, used |-> <<>>]
       ELSE IF IsRaise(price_ok) THEN after2(price_ok)
       ELSE IF ~price_ok.v THEN after2(PyNone)
       ELSE IF IsRaise(overview_ok) THEN after2(overview_ok)
       ELSE IF ~overview_ok.v THEN after2(PyNone)
       ELSE IF IsRaise(token_info) THEN after2(token_info)
       ELSE IF IsRaise(with_security) THEN after4(with_security)
       ELSE after4(with_holders)

(***************************************************************************)
(* The environment: the map file on disk and what the remote service      *)
(* answers.                                                                *)
(***************************************************************************)
Envelope(success, data) == PyDict([success |-> success, data |-> data])
Yes == PyBool(TRUE)
No == PyBool(FALSE)
Garbage == PyList(<<PyNum(1)>>)
EmptyDict == PyDict(<<>>)

\* address of the i-th entry of the map file
TableAddress(i) ==
    CASE i = 1 -> PyStr("local1")
      [] i = 2 -> PyStr("local2")
      [] i = 3 -> PyStr("local3")
      [] OTHER -> PyStr("localN")

\* key lists of a JSON object: distinct names, in file order
KeyLists ==
    {ns \in UNION {[1..k -> Names] : k \in 0..MaxEntries} :
        \A i, j \in DOMAIN ns : i # j => ns[i] # ns[j]}

Tables ==
    {LocalTable([i \in DOMAIN ns |-> Entry(ns[i], TableAddress(i))]) :
        ns \in KeyLists}

MapFile(kind, value) == [kind |-> kind, value |-> value]

MapFiles ==
    {MapFile(k, PyNone) : k \in {"missing", "invalid_json", "undecodable"}}
    \cup {MapFile("json", x) : x \in {PyList(<<>>), PyNone}}
    \cup {MapFile("json", x) : x \in Tables}

SearchItem(address) == PyDict([address |-> PyStr(address), symbol |-> PyStr("TKN")])
SearchData(items) == PyDict([items |-> items])

SearchBodies ==
    {Garbage, EmptyDict, PyDict([success |-> Yes]),
     Envelope(No, SearchData(PyList(<<SearchItem("addrX")>>))),
     Envelope(Yes, EmptyDict),
     Envelope(Yes, Garbage),
     Envelope(Yes, PyDict([total |-> PyNum(0)])),
     Envelope(Yes, SearchData(PyNone)),
     Envelope(Yes, SearchData(PyList(<<>>))),
     Envelope(Yes, SearchData(PyList(<<SearchItem("addrX")>>))),
     Envelope(Yes, SearchData(PyList(<<SearchItem("addrX"),
                                       SearchItem("addrY")>>))),
     Envelope(Yes, SearchData(PyList(<<SearchItem("addrY"),
                                       SearchItem("addrX")>>))),
     Envelope(Yes, SearchData(PyList(<<PyDict([symbol |-> PyStr("TKN")])>>))),
     Envelope(Yes, SearchData(PyList(<<SearchItem("")>>))),
     Envelope(Yes, SearchData(PyList(<<PyStr("addrX")>>)))}

SearchWires == WireFaults \cup {WireOk(b) : b \in SearchBodies}

PriceBodies ==
    {Garbage, EmptyDict, PyDict([success |-> Yes]),
     Envelope(No, PyDict([value |-> PyNum(2)])),
     Envelope(Yes, EmptyDict),
     Envelope(Yes, PyNone),
     Envelope(Yes, PyStr("n/a")),
     Envelope(Yes, PyDict([updateUnixTime |-> PyNum(7)])),
     Envelope(Yes, PyDict([value |-> PyNum(2)]))}

OverviewFull ==
    PyDict([name |-> PyStr("Kovu"), symbol |-> PyStr("KOVU"),
            logoURI |-> PyStr("logo"), mc |-> PyNum(9),
            totalSupply |-> PyNum(8), circulatingSupply |-> PyNum(7),
            website |-> PyStr("top.site"),
            links |-> PyDict([website |-> PyStr("links.site"),
                              twitter |-> PyStr("tw"),
                              telegram |-> PyStr("tg")]),
            extensions |-> PyDict([discord |-> PyStr("dc")])])

OverviewBodies ==
    {Garbage,
     Envelope(No, OverviewFull),
     Envelope(Yes, EmptyDict),
     Envelope(Yes, Garbage),
     Envelope(Yes, OverviewFull),
     Envelope(Yes, PyDict([name |-> PyStr("Kovu"),
                           website |-> PyStr("top.site")])),
     Envelope(Yes, PyDict([symbol |-> PyStr("KOVU"),
                           links |-> PyStr("none")]))}

SecurityFull ==
    PyDict([creatorAddress |-> PyStr("creator"),
            ownerAddress |-> PyStr("owner"),
            isMutable |-> No, isVerified |-> Yes, isHoneypot |-> No,
            lpLock |-> Yes, top10HolderPercent |-> PyNum(40)])

SecurityBodies ==
    {Garbage,
     Envelope(No, SecurityFull),
     Envelope(Yes, EmptyDict),
     Envelope(Yes, PyStr("n/a")),
     Envelope(Yes, SecurityFull),
     Envelope(Yes, PyDict([creatorAddress |-> PyStr("creator")]))}

HolderOwner(i) ==
    CASE i = 1 -> "h1" [] i = 2 -> "h2" [] i = 3 -> "h3" [] i = 4 -> "h4"
      [] i = 5 -> "h5" [] i = 6 -> "h6" [] i = 7 -> "h7" [] OTHER -> "hN"

HolderRecord(i) ==
    PyDict([owner |-> PyStr(HolderOwner(i)), percentage |-> PyNum(50 - i),
            amount |-> PyNum(i)])

HolderList(n) == PyList([i \in 1..n |-> HolderRecord(i)])

HolderData(holders) == PyDict([holders |-> holders, total |-> PyNum(9)])

HolderBodies ==
    {Garbage,
     Envelope(No, HolderData(HolderList(2))),
     Envelope(Yes, EmptyDict),
     Envelope(Yes, Garbage),
     Envelope(Yes, PyDict([total |-> PyNum(9)])),
     Envelope(Yes, HolderData(PyNone)),
     Envelope(Yes, HolderData(PyList(<<PyStr("h1")>>)))}
    \cup {Envelope(Yes, HolderData(HolderList(n))) : n \in 0..MaxHolders}

WiresOf(bodies) == WireFaults \cup {WireOk(b) : b \in bodies}

\* <<price, overview, security, holders>> outcomes of one aggregation
AllWires ==
    WiresOf(PriceBodies) \X WiresOf(OverviewBodies)
        \X WiresOf(SecurityBodies) \X WiresOf(HolderBodies)

Timeout == [kind |-> "timeout", body |-> PyNone]

\* a smaller choice of outcomes, for the specifications that interleave
\* the aggregator with the resolver
CoreWires ==
    {Timeout, WireOk(Garbage), WireOk(Envelope(Yes, PyDict([value |-> PyNum(2)])))}
    \X {Timeout, WireOk(Envelope(Yes, OverviewFull))}
    \X {Timeout, WireOk(Envelope(Yes, PyStr("n/a"))),
         WireOk(Envelope(Yes, SecurityFull))}
    \X {Timeout, WireOk(Envelope(Yes, HolderData(HolderList(2)))),
         WireOk(Envelope(Yes, HolderData(HolderList(MaxHolders))))}

Addresses == {"addr1", "addrX"}

(***************************************************************************)
(* The state machine.                                                      *)
(***************************************************************************)
\* earlier.after counts the operations executed after the recorded one
NoEarlier ==
    [seen |-> FALSE, address |-> "", used |-> <<>>, ret |-> PyNone,
     after |-> 0]

Later(e) ==
    IF e.seen /\ e.after < MaxLater THEN [e EXCEPT !.after = @ + 1] ELSE e

\* TokenMapper.__init__ and TokenDataService.__init__ over the map files
\* of `files`
InitOver(files) ==
    /\ map_file \in files
    /\ constructed = ~IsRaise(load_local_map(map_file))
    /\ local_map = IF IsRaise(load_local_map(map_file))
                   THEN PyNone ELSE load_local_map(map_file)
    /\ birdeye_client = TRUE
    /\ op = "none"
    /\ arg = <<>>
    /\ responses = <<>>
    /\ calls = <<>>
    /\ result = PyNone
    /\ earlier = NoEarlier

Init == InitOver(MapFiles)

\* a call of TokenMapper.get_contract_address
Resolve ==
    /\ constructed
    /\ op = "none"
    /\ \E token_query \in Names, wire \in SearchWires :
          LET r == get_contract_address(local_map, birdeye_client,
                                        token_query, wire)
          IN /\ op' = "resolve"
             /\ arg' = token_query
             /\ calls' = r.calls
             /\ responses' = IF r.calls = <<>> THEN <<>> ELSE <<wire>>
             /\ result' = r.ret
             /\ local_map' = r.local_map
    /\ earlier' = Later(earlier)
    /\ UNCHANGED <<map_file, constructed, birdeye_client>>

\* a call of TokenDataService.get_core_token_info with outcomes drawn from
\* `wireSet`; with keep, the invocation is recorded in `earlier` if none
\* has been yet
BuildOver(wireSet, keeps) ==
    /\ op = "none"
    /\ \E contract_address \in Addresses, wires \in wireSet, keep \in keeps :
          LET r == get_core_token_info(birdeye_client, contract_address,
                                       wires)
          IN /\ op' = "build"
             /\ arg' = contract_address
             /\ calls' = r.calls
             /\ responses' = r.used
             /\ result' = r.ret
             /\ earlier' = IF keep /\ ~earlier.seen
                           THEN [seen |-> TRUE, address |-> contract_address,
                                 used |-> r.used, ret |-> r.ret,
                                 after |-> 0]
                           ELSE Later(earlier)
    /\ UNCHANGED <<map_file, constructed, local_map, birdeye_client>>

\* the caller takes the result; the objects live on for the next call
Return ==
    /\ op # "none"
    /\ op' = "none"
    /\ arg' = <<>>
    /\ responses' = <<>>
    /\ calls' = <<>>
    /\ result' = PyNone
    /\ UNCHANGED <<map_file, constructed, local_map, birdeye_client, earlier>>

BuildProfile == BuildOver(AllWires, {FALSE})
BuildProfileCore == BuildOver(CoreWires, {FALSE})
BuildProfileObserved == BuildOver(CoreWires, BOOLEAN)

\* the resolver and the aggregator, over every map file
Next == Resolve \/ BuildProfileCore \/ Return
Spec == Init /\ [][Next]_vars

\* the aggregator alone, over every outcome of its four calls
InitAggregator == InitOver({MapFile("missing", PyNone)})
NextAggregator == BuildProfile \/ Return
SpecAggregator == InitAggregator /\ [][NextAggregator]_vars

\* both, with one earlier aggregation kept for comparison
SampleTable ==
    LocalTable(<<Entry(<<"A">>, TableAddress(1)),
                 Entry(<<"a">>, TableAddress(2))>>)
InitObserved == InitOver({MapFile("json", SampleTable)})
NextObserved == Resolve \/ BuildProfileObserved \/ Return
SpecObserved == InitObserved /\ [][NextObserved]_vars

(***************************************************************************)
(* Vocabulary of the properties.                                           *)
(***************************************************************************)
\* two characters are the same letter, whatever their case
SameLetter(c, d) == c = d \/ {c, d} \in {{"a", "A"}, {"b", "B"}}

\* s and t are equal case-insensitively
CaseInsensitiveEq(s, t) ==
    Len(s) = Len(t) /\ \A i \in DOMAIN s : SameLetter(s[i], t[i])

\* the entries of the table whose key equals q case-insensitively
MatchingEntries(q) ==
    IF local_map.t # "table" THEN {}
    ELSE {i \in DOMAIN local_map.v :
             CaseInsensitiveEq(local_map.v[i].name, q)}

Least(S) == CHOOSE i \in S : \A j \in S : i <= j

\* the call succeeded with populated data: it answered an envelope whose
\* success indicator is set and whose data section is not empty
Succeeded(wire) ==
    /\ wire.kind = "ok"
    /\ wire.body.t = "dict"
    /\ "success" \in DOMAIN wire.body.v
    /\ "data" \in DOMAIN wire.body.v
    /\ Truthy(wire.body.v["success"])
    /\ Truthy(wire.body.v["data"])

DataOf(wire) == wire.body.v["data"]

\* the search answered a success envelope listing at least one item
SearchFoundItems(wire) ==
    /\ Succeeded(wire)
    /\ DataOf(wire).t = "dict"
    /\ "items" \in DOMAIN DataOf(wire).v
    /\ DataOf(wire).v["items"].t = "list"
    /\ DataOf(wire).v["items"].v # <<>>

FirstItem(wire) == DataOf(wire).v["items"].v[1]

\* what resolve is to return for a query the table does not hold: the
\* first item's address, NotFound when there is none (an item without an
\* address, or with an empty one, is a payload missing the expected field)
ExpectedFromSearch(wire) ==
    IF /\ SearchFoundItems(wire)
       /\ FirstItem(wire).t = "dict"
       /\ "address" \in DOMAIN FirstItem(wire).v
       /\ Truthy(FirstItem(wire).v["address"])
    THEN FirstItem(wire).v["address"]
    ELSE PyNone

\* the holders call answered a success envelope with a list of records
HoldersListed(wire) ==
    /\ Succeeded(wire)
    /\ DataOf(wire).t = "dict"
    /\ "holders" \in DOMAIN DataOf(wire).v
    /\ DataOf(wire).v["holders"].t = "list"
    /\ \A i \in DOMAIN DataOf(wire).v["holders"].v :
           DataOf(wire).v["holders"].v[i].t = "dict"

HoldersOf(wire) == DataOf(wire).v["holders"].v

Smaller(a, b) == IF a < b THEN a ELSE b

\* the first min(N, 5) provider entries, each as {address, percentage}
ExpectedTopHolders(wire) ==
    PyList([i \in 1..Smaller(Len(HoldersOf(wire)), TopHolders) |->
               PyDict([address |-> py_get(HoldersOf(wire)[i], "owner"),
                       percentage |->
                           py_get(HoldersOf(wire)[i], "percentage")])])

FixedSequence(address) ==
    <<Call("/defi/price", [address |-> address, chain |-> "solana"]),
      Call("/defi/token_overview", [address |-> address, chain |-> "solana"]),
      Call("/defi/token_security", [address |-> address, chain |-> "solana"]),
      Call("/defi/v3/token/holder",
           [token_address |-> address, chain |-> "solana"])>>

MalformedFile(file) ==
    \/ file.kind \in {"invalid_json", "undecodable"}
    \/ file.kind = "json" /\ file.value.t # "table"

(***************************************************************************)
(* Properties.                                                             *)
(***************************************************************************)
\* C1: a query that equals a key of the table case-insensitively resolves
\* to the address of the first such entry in table order, and no remote
\* call is issued.
ResolveLocalFirstMatch ==
    (op = "resolve" /\ MatchingEntries(arg) # {}) =>
        /\ result = local_map.v[Least(MatchingEntries(arg))].address
        /\ calls = <<>>

\* C1 case: two entries match a query written in another case than the
\* first of them, and the first one's address came back
ResolveLocalFirstMatchCase ==
    /\ op = "resolve"
    /\ Cardinality(MatchingEntries(arg)) >= 2
    /\ local_map.v[Least(MatchingEntries(arg))].name # arg
    /\ result = local_map.v[1].address
    /\ calls = <<>>

\* C2: a query matching no key issues exactly one search call, with the
\* lowercased query and chain "solana", and returns the first item's
\* address when the search succeeds with an item and NotFound when the
\* search fails, lists nothing or lacks the expected fields.
ResolveRemoteFallback ==
    (op = "resolve" /\ MatchingEntries(arg) = {}) =>
        /\ calls = <<Call("/defi/v3/search",
                          [q |-> lower(arg), chain |-> "solana"])>>
        /\ result = ExpectedFromSearch(responses[1])

\* C3: whenever price or overview fails, reports success=false or has no
\* populated data, buildProfile returns NotFound.
BuildRequiredFailureIsNotFound ==
    (op = "build" /\ ~(Succeeded(responses[1]) /\ Succeeded(responses[2])))
        => result = PyNone

\* C4: whenever price and overview both succeed with populated data,
\* buildProfile returns a profile, and the profile holds none of the
\* security fields when the security call did not succeed with data.
BuildOptionalFailureDegrades ==
    (op = "build" /\ Succeeded(responses[1]) /\ Succeeded(responses[2])) =>
        /\ result.t = "dict"
        /\ Len(responses) = 4
        /\ ~Succeeded(responses[3]) => DOMAIN result.v \cap SecurityKeys = {}

\* C5: with the required calls succeeded, a holders call that succeeds
\* with N entries gives a holder summary of the first min(N,5) entries in
\* provider order as {address, percentage}; a holders call that fails
\* gives a profile with no holder field.
BuildHolderSummary ==
    (op = "build" /\ Succeeded(responses[1]) /\ Succeeded(responses[2])) =>
        /\ result.t = "dict"
        /\ Len(responses) = 4
        /\ HoldersListed(responses[4]) =>
              /\ "topHolders" \in DOMAIN result.v
              /\ result.v["topHolders"] = ExpectedTopHolders(responses[4])
        /\ ~Succeeded(responses[4]) => "topHolders" \notin DOMAIN result.v

\* C6: whatever the remote calls do, resolve and buildProfile return a
\* value; no fault escapes them.
NoFaultEscapes == ~IsRaise(result)

\* C7: with a missing or malformed map file the constructor does not
\* raise, the table is empty, and every resolve call falls through to the
\* remote search as with an empty table.
MapFileFaultsTolerated ==
    (map_file.kind = "missing" \/ MalformedFile(map_file)) =>
        /\ constructed
        /\ local_map = LocalTable(<<>>)
        /\ op = "resolve" =>
              /\ Len(calls) = 1
              /\ result = get_contract_address(LocalTable(<<>>), TRUE, arg,
                                                responses[1]).ret

\* C8: the table is what the constructor loaded, after any sequence of
\* resolve and buildProfile calls.
TableNeverMutated ==
    constructed => local_map = load_local_map(map_file)

\* C8 case: a resolve call has just succeeded through the remote search,
\* and the non-empty table still holds no entry for its query
ResolvedRemotely ==
    /\ op = "resolve"
    /\ Len(calls) = 1
    /\ result.t = "str"
    /\ local_map.t = "table"
    /\ Len(local_map.v) >= 1
    /\ MatchingEntries(arg) = {}

BuildCallSequence ==
    op = "build" =>
        IF Succeeded(responses[1]) /\ Succeeded(responses[2])
        THEN calls = FixedSequence(arg) /\ result.t = "dict"
        ELSE calls = SubSeq(FixedSequence(arg), 1, 2) /\ result = PyNone

(***************************************************************************)
(* What holds of the aggregator's calls whatever it returns, and what      *)
(* holds of the results wherever no fault escapes.                         *)
(***************************************************************************)
BuildCallOrder ==
    op = "build" =>
        /\ Len(calls) \in {2, 4}
        /\ calls = SubSeq(FixedSequence(arg), 1, Len(calls))
        /\ Len(responses) = Len(calls)
        /\ Len(calls) = 4 =>
              Succeeded(responses[1]) /\ Succeeded(responses[2])
        /\ result = PyNone => Len(calls) = 2
        /\ result.t = "dict" => Len(calls) = 4

ResolveRemoteFallbackUnlessFault ==
    IsRaise(result) \/ ResolveRemoteFallback

BuildRequiredFailureUnlessFault ==
    IsRaise(result) \/ BuildRequiredFailureIsNotFound

BuildOptionalFailureUnlessFault ==
    IsRaise(result) \/ BuildOptionalFailureDegrades

BuildHolderSummaryUnlessFault ==
    IsRaise(result) \/ BuildHolderSummary

BuildCallSequenceUnlessFault ==
    IsRaise(result) \/ BuildCallSequence

\* a fault escapes only on a body of unexpected shape or on a map file
\* that is not a JSON object
FaultOnlyOnUnexpectedShape ==
    IsRaise(result) =>
        \/ local_map.t # "table"
        \/ \E i \in DOMAIN responses :
              /\ responses[i].kind = "ok"
              /\ \/ responses[i].body.t # "dict"
                 \/ /\ Succeeded(responses[i])
                    /\ \/ DataOf(responses[i]).t # "dict"
                       \/ op = "resolve" /\ ~SearchFoundItems(responses[i])
                       \/ op = "resolve" /\ FirstItem(responses[i]).t # "dict"
                       \/ op = "build" /\ i = 4 /\ ~HoldersListed(responses[i])

\* the two conditions of the map file that load_local_map handles
MapFileHandledFaultsTolerated ==
    map_file.kind \in {"missing", "invalid_json"} => MapFileFaultsTolerated
====
